---- MODULE Spec2Model ----
(***************************************************************************)
(* The quiz-attempt session of QuizCanvas: the React component Quiz, in    *)
(* its two versions (frontend/src/pages/Quiz.js and the later version with *)
(* an explicit resume/restart choice), together with the attempt service   *)
(* it talks to.  The component's useState cells are the variables, every   *)
(* event handler, effect callback and promise continuation is one action.  *)
(***************************************************************************)
EXTENDS Integers, FiniteSets, Sequences, TLC

\* ---------------------------------------------------------------- bounds

\* initialization effects run in one component lifetime (mount included)
MaxInits == 2
\* handleAnswerChange calls in one session (all of them may be in flight at
\* the same time)
MaxAnswers == 2
\* questions of the quiz under test
NumQuestions == 2

\* ------------------------------------------------------ program constants

\* customTimer * 60, quizData.time_limit * 60
SecondsPerMinute == 60
\* HTTP status of a start conflict
StatusConflict == 409
\* HTTP 401 Unauthorized: the service has rejected the bearer token
StatusUnauthorized == 401

\* ------------------------------------------------------------ value sets

Variants == {"pages", "part001"}
\* The older Quiz component whose text follows the routes in App.js.
LegacyVariants == {"app"}
\* params.get('timer') as parseInt reads it: the text of the parameter, one
\* character per element; an absent parameter is null, read as the text "null"
NoParam == <<"n", "u", "l", "l">>
\* the entry URLs of the session specifications: no override, one minute
Searches == {NoParam, <<"1">>}
\* timer parameters an entry URL can carry: absent, empty, non-numeric, zero,
\* negative, a positive integer, and texts that only begin like one
TimerParams == {NoParam, <<>>, <<"x">>, <<"0">>, <<"-", "1">>, <<"1">>,
                <<"1", "x">>, <<"1", ".", "5">>}
DigitChars == {"0", "1", "5"}
\* quiz.time_limit in minutes, 0 when the quiz has none
TimeLimits == {0, 1}
\* ['a','b','c','d'] / question.options, cut to two options
Options == {0, 1}
NoAnswer == -1
\* a field the response does not carry (undefined)
Undefined == -1
\* the option the service scores as correct (the same for every question)
CorrectOption == 0
\* useState(null)
Null == 0
\* timeLeft's useState(null)
NoTimer == -1
\* attempt ids the service can hand out: one stale attempt plus one per init
MaxAttemptId == MaxInits + 1
AttemptIds == 1..MaxAttemptId
Questions == 1..NumQuestions
\* every initialization may still be pending when the next one begins
FlowIds == 1..MaxInits

ErrNone == ""
ErrLoad == "Failed to load quiz"
ErrSubmit == "Failed to submit quiz"

VARIABLES
    variant,               \* which version of Quiz is mounted
    search,                \* location.search (timer parameter)
    timeLimit,             \* the quiz's time_limit as the service stores it
    questions,             \* questions.length
    currentQuestionIndex,
    answers,               \* question -> option | NoAnswer
    attemptId,
    loading,
    submitting,
    error,
    timeLeft,
    quizCompleted,
    results,               \* NoResults, or the score summary of the response
    flows,                 \* pending fetchQuizData calls
    inits,                 \* initialization effects run so far
    submits,               \* in-flight final-submit requests: attempt -> count
    answerReqs,            \* in-flight answer requests
    attempts,              \* the service: attempt id -> status
    stored,                \* the service: attempt id -> question -> option | NoAnswer
    submitCalls,           \* observation: final-submit requests issued so far
    fired,                 \* observation: submitQuiz calls the timer made since it was armed
    lastEvent,             \* observation: the handler that ran last
    answersDropped,        \* observation: an answer request was lost or rejected
    resumedAt,             \* observation: next_question of the last resume response (0: none)
    answerCalls,           \* observation: handleAnswerChange calls so far
    tokenValid,            \* the service: the bearer token of the session is accepted
    route                  \* the router: "quiz" while the component is mounted, or "login"

vars == <<variant, tokenValid, route, search, timeLimit, questions, currentQuestionIndex, answers,
          attemptId, loading, submitting, error, timeLeft, quizCompleted,
          results, flows, inits, submits, answerReqs, attempts, submitCalls,
          fired, lastEvent, stored, answersDropped, resumedAt, answerCalls>>

\* ------------------------------------------------------------- the service

\* The attempt a start request conflicts with (0 when there is none).
InProgress == {a \in AttemptIds : attempts[a] = "in_progress"}

ExistingAttempt == IF InProgress = {} THEN 0 ELSE CHOOSE a \in InProgress : TRUE

\* The next unused attempt id.
FreshId == 1 + Cardinality({a \in AttemptIds : attempts[a] # "none"})

\* POST start: a new attempt, or the conflict carrying the existing attempt.
BackendStart == IF InProgress = {}
                THEN [status |-> 200, id |-> FreshId,
                      attempts |-> [attempts EXCEPT ![FreshId] = "in_progress"]]
                ELSE [status |-> StatusConflict, id |-> ExistingAttempt,
                      attempts |-> attempts]

\* POST end: closes an in-progress attempt without scoring it.
BackendEnd(a) == IF a \in AttemptIds /\ attempts[a] = "in_progress"
                 THEN [status |-> 200, id |-> a,
                       attempts |-> [attempts EXCEPT ![a] = "ended"]]
                 ELSE [status |-> 404, id |-> a, attempts |-> attempts]

\* POST complete: scores an in-progress attempt.
BackendComplete(a) == IF a \in AttemptIds /\ attempts[a] = "in_progress"
                      THEN [status |-> 200, id |-> a,
                            attempts |-> [attempts EXCEPT ![a] = "completed"]]
                      ELSE [status |-> 404, id |-> a, attempts |-> attempts]

\* POST resume: hands back an in-progress attempt.
BackendResume(a) == IF a \in AttemptIds /\ attempts[a] = "in_progress"
                    THEN [status |-> 200, id |-> a, attempts |-> attempts]
                    ELSE [status |-> 404, id |-> a, attempts |-> attempts]

\* POST answer at a service that does not look at the attempt's status.
BackendAnswerAnyStatus(a, q, o) ==
    IF a \in AttemptIds /\ attempts[a] # "none"
    THEN [status |-> 200, stored |-> [stored EXCEPT ![a][q] = o]]
    ELSE [status |-> 404, stored |-> stored]

\* POST answer: adds or overwrites one entry of an in-progress attempt; any
\* other attempt is left as it is.
BackendAnswer(a, q, o) == IF a \in AttemptIds /\ attempts[a] = "in_progress"
                          THEN [status |-> 200, stored |-> [stored EXCEPT ![a][q] = o]]
                          ELSE [status |-> 404, stored |-> stored]

\* The score summary of an attempt; incorrect_answers is supplied or left out.
Score(a, supplied) ==
    [attempt |-> a,
     correct_answers |-> Cardinality({q \in Questions : stored[a][q] = CorrectOption}),
     total_questions |-> NumQuestions,
     incorrect_answers |->
         IF supplied
         THEN Cardinality({q \in Questions : stored[a][q] \notin {CorrectOption, NoAnswer}})
         ELSE Undefined]

\* What the network does to one request/response pair.
NetOutcomes == {"ok", "requestLost", "responseLost"}

\* The request gets to the service's handler: it is delivered, and the
\* authentication layer in front of every endpoint accepts its token.
Reaches(net) == net # "requestLost" /\ tokenValid

\* The service state after a request under a network outcome.
Served(net, reply) == IF Reaches(net) THEN reply.attempts ELSE attempts

\* The status the client sees: 0 stands for "no response" (error.response unset).
Seen(net, reply) == IF net # "ok" THEN 0
                    ELSE IF tokenValid THEN reply.status ELSE StatusUnauthorized

\* ---------------------------------------------------------- the component

\* useState(null) for results
NoResults == [attempt |-> Null, correct_answers |-> 0, total_questions |-> 0,
              incorrect_answers |-> Undefined]

FlowIdle == [pc |-> "idle", search |-> <<>>, tl |-> 0, existing |-> 0, choice |-> "none"]

\* window.confirm is open: the page's event loop is blocked.
Blocked == \E f \in FlowIds : flows[f].pc = "confirm"

FreeFlow == CHOOSE f \in FlowIds : flows[f].pc = "idle"

\* parseInt skips leading white space
RECURSIVE SkipSpace(_)
SkipSpace(s) == IF s # <<>> /\ Head(s) = " " THEN SkipSpace(Tail(s)) ELSE s

\* ... and reads digits up to the first character that is not one
RECURSIVE LeadingDigits(_)
LeadingDigits(s) == IF s # <<>> /\ Head(s) \in DigitChars
                    THEN <<Head(s)>> \o LeadingDigits(Tail(s))
                    ELSE <<>>

DigitValue(c) == CASE c = "0" -> 0 [] c = "1" -> 1 [] c = "5" -> 5

\* the value of a run of decimal digits
RECURSIVE DecimalValue(_)
DecimalValue(ds) == IF ds = <<>> THEN 0
                    ELSE 10 * DecimalValue(SubSeq(ds, 1, Len(ds) - 1)) + DigitValue(ds[Len(ds)])

\* parseInt(params.get('timer'), 10): white space, an optional sign, then
\* the leading digits; NaN when there are none
ParseInt(s) ==
    LET t == SkipSpace(s)
        signed == t # <<>> /\ Head(t) \in {"-", "+"}
        ds == LeadingDigits(IF signed THEN Tail(t) ELSE t)
    IN IF ds = <<>> THEN [nan |-> TRUE, val |-> 0]
       ELSE [nan |-> FALSE,
             val |-> IF signed /\ Head(t) = "-" THEN 0 - DecimalValue(ds)
                     ELSE DecimalValue(ds)]

\* !isNaN(customTimer) && customTimer > 0
CustomTimer(s) == ~ParseInt(s).nan /\ ParseInt(s).val > 0

\* Whether a finished start calls setTimeLeft at all.
TimerArms(s, tl) == CustomTimer(s) \/ tl # 0

\* The timer a finished start arms: the override, else the quiz's limit, else
\* timeLeft is left as it is.
ArmedTimer(s, tl) == IF CustomTimer(s) THEN ParseInt(s).val * SecondsPerMinute
                     ELSE IF tl # 0 THEN tl * SecondsPerMinute
                     ELSE timeLeft

\* The render gates, top to bottom (the later version tests results too and
\* has a gate for a quiz without questions).
View == IF route # "quiz" THEN "login"
        ELSE IF loading THEN "loading"
        ELSE IF error # ErrNone THEN "error"
        ELSE IF quizCompleted /\ (variant = "pages" \/ results # NoResults) THEN "results"
        ELSE IF variant # "pages" /\ questions = 0 THEN "empty"
        ELSE "quiz"

\* The buttons of the error view: the later version offers the way back to
\* the dashboard, pages/Quiz.js shows the message alone.
ErrorViewButtons == IF variant # "pages" THEN {"Back to Dashboard"} ELSE {}

\* The results view reading the field without a fallback.
IncorrectFromField == results.incorrect_answers

\* The results view of the later version: the incorrect count it shows.
Incorrect == IF results.incorrect_answers # Undefined
             THEN results.incorrect_answers
             ELSE results.total_questions - results.correct_answers

\* The session state of the attempt state machine, read off the component.
SessionState == IF Blocked THEN "ConflictPending"
                ELSE IF loading THEN "Initializing"
                ELSE IF error # ErrNone THEN "Failed"
                ELSE IF quizCompleted THEN "Completed"
                ELSE IF submitting THEN "Submitting"
                ELSE "Active"

RECURSIVE SumTo(_)
SumTo(n) == IF n < 0 THEN 0 ELSE submits[n] + SumTo(n - 1)

\* final-submit requests in flight
SubmitCount == SumTo(MaxAttemptId)

TypeOK == /\ variant \in Variants \cup LegacyVariants
          /\ search \in Searches \cup TimerParams
          /\ timeLimit \in TimeLimits
          /\ questions \in {0, NumQuestions}
          /\ currentQuestionIndex \in 0..(NumQuestions - 1)
          /\ answers \in [Questions -> Options \cup {NoAnswer}]
          /\ attemptId \in AttemptIds \cup {Null}
          /\ loading \in BOOLEAN
          /\ submitting \in BOOLEAN
          /\ error \in {ErrNone, ErrLoad, ErrSubmit}
          /\ timeLeft \in {NoTimer} \cup 0..SecondsPerMinute
          /\ quizCompleted \in BOOLEAN
          /\ results = NoResults \/ results.attempt \in AttemptIds
          /\ stored \in [AttemptIds -> [Questions -> Options \cup {NoAnswer}]]
          /\ answersDropped \in BOOLEAN
          /\ resumedAt \in 0..NumQuestions
          /\ answerCalls \in 0..MaxAnswers
          /\ tokenValid \in BOOLEAN
          /\ route \in {"quiz", "login"}
          /\ inits \in 1..MaxInits
          /\ attempts \in [AttemptIds -> {"none", "in_progress", "completed", "ended"}]

\* The state after the first render of a version in V, on an entry URL with
\* a timer parameter in S.
InitFor(V, S) ==
        /\ variant \in V
        /\ search \in S
        /\ timeLimit \in TimeLimits
        /\ questions = 0
        /\ currentQuestionIndex = 0
        /\ answers = [q \in Questions |-> NoAnswer]
        /\ attemptId = Null
        /\ loading = TRUE
        /\ submitting = FALSE
        /\ error = ErrNone
        /\ timeLeft = NoTimer
        /\ quizCompleted = FALSE
        /\ results = NoResults
        /\ flows = [f \in FlowIds |-> IF f = 1
                                      THEN [FlowIdle EXCEPT !.pc = "quiz", !.search = search]
                                      ELSE FlowIdle]
        /\ inits = 1
        /\ submits = [a \in 0..MaxAttemptId |-> 0]
        /\ answerReqs = {}
        /\ attempts \in {[a \in AttemptIds |-> "none"],
                         [a \in AttemptIds |-> IF a = 1 THEN "in_progress" ELSE "none"]}
        /\ submitCalls = 0
        /\ fired = 0
        /\ lastEvent = "mount"
        /\ stored = [a \in AttemptIds |-> [q \in Questions |-> NoAnswer]]
        /\ answersDropped = FALSE
        /\ resumedAt = 0
        /\ answerCalls = 0
        /\ tokenValid = TRUE
        /\ route = "quiz"

\* The same for the two versions of pages/Quiz.js.
InitOn(S) == InitFor(Variants, S)

Init == InitOn(Searches)

\* ------------------------------------------------------------ submitQuiz

\* submitQuiz up to its await: the guard of the later version, setSubmitting
\* and the request for the attempt id of the current render.
SubmitQuiz == IF variant = "part001" /\ attemptId = Null
              THEN UNCHANGED <<submitting, submits, submitCalls>>
              ELSE /\ submitting' = TRUE
                   /\ submits' = [submits EXCEPT ![attemptId] = @ + 1]
                   /\ submitCalls' = submitCalls + 1

\* The older component's timer effect has quizCompleted among its
\* dependencies and calls handleSubmitQuiz whenever it runs with timeLeft === 0:
\* the success branch of a submit on an expired timer makes it run once more.
LegacyEffectResubmits(seen) ==
    variant \in LegacyVariants /\ seen = 200 /\ ~quizCompleted /\ timeLeft = 0

\* The submit button: rendered in the quiz view, disabled while submitting; the
\* later version shows it on the last question only.
ClickSubmit == /\ ~Blocked
               /\ View = "quiz"
               /\ ~submitting
               /\ variant # "pages" => currentQuestionIndex = questions - 1
               /\ SubmitQuiz
               /\ lastEvent' = "clickSubmit"
               /\ UNCHANGED <<variant, tokenValid, route, search, timeLimit, questions,
                              currentQuestionIndex, answers, attemptId, loading,
                              error, timeLeft, quizCompleted, results, flows,
                              inits, resumedAt, answerReqs, stored, answersDropped, answerCalls, attempts, fired>>

\* submitQuiz with a catch that lets a missing attempt pass: no error is
\* set on a 404 and the quiz view stays.
SubmitResponseForgivesNotFound(a, net, supplied) ==
    LET reply == IF variant = "pages" THEN BackendEnd(a) ELSE BackendComplete(a)
    IN /\ ~Blocked
       /\ submits[a] > 0
       /\ submits' = [submits EXCEPT ![a] = @ - 1]
       /\ attempts' = Served(net, reply)
       /\ IF Seen(net, reply) = 200
          THEN /\ results' = Score(reply.id, supplied)
               /\ quizCompleted' = TRUE
               /\ error' = error
               /\ lastEvent' = "submitOk"
          ELSE /\ error' = IF Seen(net, reply) = 404 THEN error ELSE ErrSubmit
               /\ UNCHANGED <<results, quizCompleted>>
               /\ lastEvent' = IF Seen(net, reply) = 404 THEN "submitNotFound"
                                ELSE "submitFailed"
       /\ submitting' = FALSE
       /\ UNCHANGED <<variant, tokenValid, route, search, timeLimit, questions, currentQuestionIndex,
                      answers, attemptId, loading, timeLeft, flows, inits, resumedAt,
                      answerReqs, stored, answersDropped, answerCalls, submitCalls, fired>>

\* submitQuiz after its await: try / catch / finally.
SubmitResponse(a, net, supplied) ==
    LET reply == IF variant = "pages" THEN BackendEnd(a) ELSE BackendComplete(a)
    IN /\ ~Blocked
       /\ submits[a] > 0
       /\ attempts' = Served(net, reply)
       /\ IF Seen(net, reply) = 200
          THEN /\ results' = Score(reply.id, supplied)
               /\ quizCompleted' = TRUE
               /\ error' = error
               /\ lastEvent' = "submitOk"
          ELSE /\ error' = ErrSubmit
               /\ UNCHANGED <<results, quizCompleted>>
               /\ lastEvent' = IF Seen(net, reply) = 404 THEN "submitNotFound"
                                ELSE "submitFailed"
       /\ IF LegacyEffectResubmits(Seen(net, reply))
          THEN /\ submitting' = TRUE
               /\ submits' = [submits EXCEPT ![a] = @ - 1, ![attemptId] = @ + 1]
               /\ submitCalls' = submitCalls + 1
               /\ fired' = fired + 1
          ELSE /\ submitting' = FALSE
               /\ submits' = [submits EXCEPT ![a] = @ - 1]
               /\ UNCHANGED <<submitCalls, fired>>
       /\ UNCHANGED <<variant, tokenValid, route, search, timeLimit, questions, currentQuestionIndex,
                      answers, attemptId, loading, timeLeft, flows, inits, resumedAt,
                      answerReqs, stored, answersDropped, answerCalls>>

\* ------------------------------------------------------------- the timer

\* The timer with the zero test widened to the last two seconds: the interval
\* calls submitQuiz at 1 and again at 0.
TickFiresTwice == /\ ~Blocked
                  /\ timeLeft > 0
                  /\ ~quizCompleted
                  /\ timeLeft' = timeLeft - 1
                  /\ IF timeLeft - 1 <= 1
                     THEN SubmitQuiz /\ fired' = fired + 1 /\ lastEvent' = "timeout"
                     ELSE UNCHANGED <<submitting, submits, submitCalls, fired>>
                            /\ lastEvent' = "tick"
                  /\ UNCHANGED <<variant, tokenValid, route, search, timeLimit, questions,
                                 currentQuestionIndex, answers, attemptId, loading,
                                 error, quizCompleted, results, flows, inits, resumedAt,
                                 answerReqs, stored, answersDropped, answerCalls, attempts>>

\* The timer effect keeping its interval while timeLeft >= 0: the countdown
\* goes on below zero.
TickPastZero == /\ ~Blocked
                /\ route = "quiz"
                /\ timeLeft >= 0
                /\ ~quizCompleted
                /\ timeLeft' = timeLeft - 1
                /\ IF timeLeft - 1 = 0
                   THEN SubmitQuiz /\ fired' = fired + 1 /\ lastEvent' = "timeout"
                   ELSE UNCHANGED <<submitting, submits, submitCalls, fired>>
                          /\ lastEvent' = "tick"
                /\ UNCHANGED <<variant, tokenValid, route, search, timeLimit, questions,
                               currentQuestionIndex, answers, attemptId, loading, error,
                               quizCompleted, results, flows, inits, resumedAt, answerReqs,
                               stored, answersDropped, answerCalls, attempts>>

\* One firing of the interval the timer effect keeps while timeLeft > 0 and
\* the quiz is not completed, with the effect's re-run on the new timeLeft.
Tick == /\ ~Blocked
        /\ route = "quiz"
        /\ timeLeft > 0
        /\ ~quizCompleted
        /\ timeLeft' = timeLeft - 1
        /\ IF timeLeft - 1 = 0
           THEN SubmitQuiz /\ fired' = fired + 1 /\ lastEvent' = "timeout"
           ELSE UNCHANGED <<submitting, submits, submitCalls, fired>> /\ lastEvent' = "tick"
        /\ UNCHANGED <<variant, tokenValid, route, search, timeLimit, questions, currentQuestionIndex,
                       answers, attemptId, loading, error, quizCompleted, results,
                       flows, inits, resumedAt, answerReqs, stored, answersDropped, answerCalls, attempts>>

\* ------------------------------------------------------- fetchQuizData

\* A catch that starts fetchQuizData over instead of giving up.
FlowFailsAndRetries(f) ==
    /\ error' = ErrLoad
    /\ loading' = TRUE
    /\ flows' = [flows EXCEPT ![f] = [FlowIdle EXCEPT !.pc = "quiz",
                                                       !.search = flows[f].search]]
    /\ UNCHANGED <<attemptId, timeLeft, currentQuestionIndex, fired>>

\* The catch without the finally block: loading is never cleared on a failure.
FlowFailsWithoutFinally(f) ==
    /\ error' = ErrLoad
    /\ loading' = loading
    /\ flows' = [flows EXCEPT ![f] = FlowIdle]
    /\ UNCHANGED <<attemptId, timeLeft, currentQuestionIndex, fired>>

\* catch (other failure) or catch (handleErr), then finally.
FlowFails(f) == /\ error' = ErrLoad
                /\ loading' = FALSE
                /\ flows' = [flows EXCEPT ![f] = FlowIdle]
                /\ UNCHANGED <<attemptId, timeLeft, currentQuestionIndex, fired>>

\* A start that arms the timer and clears loading without recording the
\* attempt id of the response.
FlowArmsWithoutAdopting(f, id) ==
    /\ attemptId' = attemptId
    /\ timeLeft' = ArmedTimer(flows[f].search, flows[f].tl)
    /\ fired' = IF TimerArms(flows[f].search, flows[f].tl) THEN 0 ELSE fired
    /\ loading' = FALSE
    /\ flows' = [flows EXCEPT ![f] = FlowIdle]
    /\ error' = error

\* setAttemptId, the timer of the attempt, then finally.
FlowAdopts(f, id) == /\ attemptId' = id
                     /\ timeLeft' = ArmedTimer(flows[f].search, flows[f].tl)
                     /\ fired' = IF TimerArms(flows[f].search, flows[f].tl) THEN 0 ELSE fired
                     /\ loading' = FALSE
                     /\ flows' = [flows EXCEPT ![f] = FlowIdle]
                     /\ error' = error

\* The initialization effect runs again: location.search has changed.
ReInit(s) == /\ ~Blocked
             /\ route = "quiz"
             /\ inits < MaxInits
             /\ \E f \in FlowIds : flows[f].pc = "idle"
             /\ s # search
             /\ search' = s
             /\ inits' = inits + 1
             /\ loading' = TRUE
             /\ flows' = [flows EXCEPT ![FreeFlow] =
                             [FlowIdle EXCEPT !.pc = "quiz", !.search = s]]
             /\ lastEvent' = "reinit"
             /\ UNCHANGED <<variant, tokenValid, route, timeLimit, questions, currentQuestionIndex,
                            answers, attemptId, submitting, error, timeLeft,
                            quizCompleted, results, submits, answerReqs, stored,
                            answersDropped, answerCalls, resumedAt, attempts,
                            submitCalls, fired>>

\* GET quiz answered: setQuiz, setQuestions and the start request, or the catch.
QuizResponse(f, ok) ==
    /\ ~Blocked
    /\ ok => tokenValid
    /\ flows[f].pc = "quiz"
    /\ IF ok
       THEN /\ questions' = NumQuestions
            /\ flows' = [flows EXCEPT ![f].pc = "start", ![f].tl = timeLimit]
            /\ lastEvent' = "quizLoaded"
            /\ UNCHANGED <<attemptId, timeLeft, currentQuestionIndex, loading, error, fired>>
       ELSE /\ FlowFails(f)
            /\ lastEvent' = "loadFailed"
            /\ UNCHANGED questions
    /\ UNCHANGED <<variant, tokenValid, route, search, timeLimit, answers, submitting, quizCompleted,
                   results, inits, resumedAt, submits, answerReqs, stored, answersDropped, answerCalls, attempts, submitCalls>>

\* POST start answered: success, conflict or failure.
StartResponse(f, net) ==
    LET reply == BackendStart
        seen == Seen(net, reply)
    IN /\ ~Blocked
       /\ flows[f].pc = "start"
       /\ attempts' = Served(net, reply)
       /\ IF seen = 200
          THEN FlowAdopts(f, reply.id) /\ lastEvent' = "started"
                 /\ UNCHANGED currentQuestionIndex
          ELSE IF seen = StatusConflict /\ variant \notin LegacyVariants
          THEN /\ flows' = [flows EXCEPT
                              ![f].pc = IF variant = "pages" THEN "end" ELSE "confirm",
                              ![f].existing = reply.id]
               /\ lastEvent' = "conflict"
               /\ UNCHANGED <<attemptId, timeLeft, currentQuestionIndex, loading, error, fired>>
          ELSE FlowFails(f) /\ lastEvent' = "loadFailed"
       /\ UNCHANGED <<variant, tokenValid, route, search, timeLimit, questions, answers, submitting,
                      quizCompleted, results, inits, resumedAt, submits, answerReqs, stored, answersDropped, answerCalls, submitCalls>>

\* window.confirm returns: OK resumes, Cancel restarts.
ConfirmChoice(f, resume) ==
    /\ flows[f].pc = "confirm"
    /\ flows' = [flows EXCEPT ![f].pc = IF resume THEN "resume" ELSE "end",
                               ![f].choice = IF resume THEN "resume" ELSE "restart"]
    /\ lastEvent' = IF resume THEN "choseResume" ELSE "choseRestart"
    /\ UNCHANGED <<variant, tokenValid, route, search, timeLimit, questions, currentQuestionIndex,
                   answers, attemptId, loading, submitting, error, timeLeft,
                   quizCompleted, results, inits, resumedAt, submits, answerReqs, stored, answersDropped, answerCalls, attempts,
                   submitCalls, fired>>

\* The resume path without the test for next_question: the question on
\* display stays where it is.
ResumeResponseKeepsQuestion(f, net, next) ==
    LET reply == BackendResume(flows[f].existing)
    IN /\ ~Blocked
       /\ flows[f].pc = "resume"
       /\ attempts' = Served(net, reply)
       /\ IF Seen(net, reply) = 200
          THEN /\ FlowAdopts(f, reply.id)
               /\ currentQuestionIndex' = currentQuestionIndex
               /\ resumedAt' = next
               /\ lastEvent' = "resumed"
          ELSE FlowFails(f) /\ lastEvent' = "loadFailed" /\ UNCHANGED resumedAt
       /\ UNCHANGED <<variant, tokenValid, route, search, timeLimit, questions, answers, submitting,
                      quizCompleted, results, inits, submits, answerReqs, stored,
                      answersDropped, answerCalls, submitCalls>>

\* The resume branch taking question_number for an index (no "- 1").
ResumeResponseOneBased(f, net, next) ==
    LET reply == BackendResume(flows[f].existing)
    IN /\ ~Blocked
       /\ flows[f].pc = "resume"
       /\ attempts' = Served(net, reply)
       /\ IF Seen(net, reply) = 200
          THEN /\ FlowAdopts(f, reply.id)
               /\ currentQuestionIndex' = IF next # 0 THEN next
                                          ELSE currentQuestionIndex
               /\ resumedAt' = next
               /\ lastEvent' = "resumed"
          ELSE FlowFails(f) /\ lastEvent' = "loadFailed" /\ UNCHANGED resumedAt
       /\ UNCHANGED <<variant, tokenValid, route, search, timeLimit, questions, answers, submitting,
                      quizCompleted, results, inits, submits, answerReqs, stored,
                      answersDropped, answerCalls, submitCalls>>

\* POST resume answered; next is next_question.question_number, 0 when absent.
ResumeResponse(f, net, next) ==
    LET reply == BackendResume(flows[f].existing)
    IN /\ ~Blocked
       /\ flows[f].pc = "resume"
       /\ attempts' = Served(net, reply)
       /\ IF Seen(net, reply) = 200
          THEN /\ FlowAdopts(f, reply.id)
               /\ currentQuestionIndex' = IF next # 0 THEN next - 1
                                          ELSE currentQuestionIndex
               /\ resumedAt' = next
               /\ lastEvent' = "resumed"
          ELSE FlowFails(f) /\ lastEvent' = "loadFailed" /\ UNCHANGED resumedAt
       /\ UNCHANGED <<variant, tokenValid, route, search, timeLimit, questions, answers, submitting,
                      quizCompleted, results, inits, submits, answerReqs, stored, answersDropped, answerCalls, submitCalls>>

\* The restart path without the await on the end request's outcome: the second
\* start is issued whether or not the stale attempt was closed.
EndResponseIgnoresFailure(f, net) ==
    LET reply == BackendEnd(flows[f].existing)
    IN /\ ~Blocked
       /\ flows[f].pc = "end"
       /\ attempts' = Served(net, reply)
       /\ flows' = [flows EXCEPT ![f].pc = "restart"]
       /\ lastEvent' = "ended"
       /\ UNCHANGED <<attemptId, timeLeft, currentQuestionIndex, loading, error, fired>>
       /\ UNCHANGED <<variant, tokenValid, route, search, timeLimit, questions, answers, submitting,
                      quizCompleted, results, inits, resumedAt, submits, answerReqs, stored, answersDropped, answerCalls, submitCalls>>

\* POST end of the stale attempt answered: the second start request, or the catch.
EndResponse(f, net) ==
    LET reply == BackendEnd(flows[f].existing)
    IN /\ ~Blocked
       /\ flows[f].pc = "end"
       /\ attempts' = Served(net, reply)
       /\ IF Seen(net, reply) = 200
          THEN /\ flows' = [flows EXCEPT ![f].pc = "restart"]
               /\ lastEvent' = "ended"
               /\ UNCHANGED <<attemptId, timeLeft, currentQuestionIndex, loading, error, fired>>
          ELSE FlowFails(f) /\ lastEvent' = "loadFailed"
       /\ UNCHANGED <<variant, tokenValid, route, search, timeLimit, questions, answers, submitting,
                      quizCompleted, results, inits, resumedAt, submits, answerReqs, stored, answersDropped, answerCalls, submitCalls>>

\* The second POST start answered.
RestartResponse(f, net) ==
    LET reply == BackendStart
    IN /\ ~Blocked
       /\ flows[f].pc = "restart"
       /\ attempts' = Served(net, reply)
       /\ IF Seen(net, reply) = 200
          THEN FlowAdopts(f, reply.id) /\ lastEvent' = "restarted"
                 /\ UNCHANGED currentQuestionIndex
          ELSE FlowFails(f) /\ lastEvent' = "loadFailed"
       /\ UNCHANGED <<variant, tokenValid, route, search, timeLimit, questions, answers, submitting,
                      quizCompleted, results, inits, resumedAt, submits, answerReqs, stored, answersDropped, answerCalls, submitCalls>>

\* ------------------------------------------------------ answers, navigation

\* handleAnswerChange up to its await, on the question on display.  Requests
\* in flight form a set: a second request with the same attempt, question and
\* option has the same effect at the service and in the component as the first.
RecordAnswer(q, o) ==
    /\ ~Blocked
    /\ View = "quiz"
    /\ q = currentQuestionIndex + 1
    /\ answerCalls < MaxAnswers
    /\ answerCalls' = answerCalls + 1
    /\ answers' = [answers EXCEPT ![q] = o]
    /\ answerReqs' = IF variant \in LegacyVariants THEN answerReqs
                     ELSE answerReqs \cup {[attempt |-> attemptId, question |-> q, option |-> o]}
    /\ lastEvent' = "recordAnswer"
    /\ UNCHANGED <<variant, tokenValid, route, search, timeLimit, questions, currentQuestionIndex,
                   attemptId, loading, submitting, error, timeLeft, quizCompleted,
                   results, flows, inits, resumedAt, submits, attempts, stored,
                   answersDropped, submitCalls, fired>>

\* handleAnswerChange with a catch that takes the optimistic answer back.
AnswerResponseRollsBack(r, net) ==
    LET reply == BackendAnswer(r.attempt, r.question, r.option)
        seen == Seen(net, reply)
    IN /\ r \in answerReqs
       /\ answerReqs' = answerReqs \ {r}
       /\ stored' = IF Reaches(net) THEN reply.stored ELSE stored
       /\ answersDropped' = (answersDropped \/ ~Reaches(net) \/ reply.status # 200)
       /\ answers' = IF seen = 200 THEN answers
                     ELSE [answers EXCEPT ![r.question] = NoAnswer]
       /\ lastEvent' = IF seen = 200 THEN "answerOk"
                        ELSE IF seen = 0 THEN "answerFailed" ELSE "answerRejected"
       /\ UNCHANGED <<variant, tokenValid, route, search, timeLimit, questions, currentQuestionIndex,
                      attemptId, loading, submitting, error, timeLeft,
                      quizCompleted, results, flows, inits, resumedAt, submits,
                      attempts, submitCalls, fired, answerCalls>>

\* The answer request reaches the service, or not, and handleAnswerChange
\* goes on after its await: console.log, or the catch's console.error.
AnswerResponse(r, net) ==
    LET reply == BackendAnswer(r.attempt, r.question, r.option)
        seen == Seen(net, reply)
    IN /\ r \in answerReqs
       /\ answerReqs' = answerReqs \ {r}
       /\ stored' = IF Reaches(net) THEN reply.stored ELSE stored
       /\ answersDropped' = (answersDropped \/ ~Reaches(net) \/ reply.status # 200)
       /\ lastEvent' = IF seen = 200 THEN "answerOk"
                        ELSE IF seen = 0 THEN "answerFailed" ELSE "answerRejected"
       /\ UNCHANGED <<variant, tokenValid, route, search, timeLimit, questions, currentQuestionIndex,
                      answers, attemptId, loading, submitting, error, timeLeft,
                      quizCompleted, results, flows, inits, resumedAt, submits,
                      attempts, submitCalls, fired, answerCalls>>

navFrame == <<variant, tokenValid, route, search, timeLimit, questions, answers, attemptId, loading,
              submitting, error, timeLeft, quizCompleted, results, flows, inits, resumedAt,
              submits, answerReqs, stored, answersDropped, answerCalls, attempts, submitCalls, fired>>

\* goToNext without its test against questions.length (and with the button
\* enabled on the last question).
GoToNextUnclamped == /\ ~Blocked
                     /\ View = "quiz"
                     /\ currentQuestionIndex' = currentQuestionIndex + 1
                     /\ lastEvent' = "next"
                     /\ UNCHANGED navFrame

\* goToNext / handleNextQuestion (in the later version the button is the
\* submit button on the last question).
GoToNext == /\ ~Blocked
            /\ View = "quiz"
            /\ currentQuestionIndex # questions - 1
            /\ currentQuestionIndex' = IF currentQuestionIndex < questions - 1
                                       THEN currentQuestionIndex + 1
                                       ELSE currentQuestionIndex
            /\ lastEvent' = "next"
            /\ UNCHANGED navFrame

\* goToPrevious that also starts the countdown of the question afresh.
GoToPreviousRestartsClock ==
    /\ ~Blocked
    /\ View = "quiz"
    /\ currentQuestionIndex # 0
    /\ currentQuestionIndex' = currentQuestionIndex - 1
    /\ timeLeft' = IF timeLeft = NoTimer THEN NoTimer ELSE SecondsPerMinute
    /\ lastEvent' = "previous"
    /\ UNCHANGED <<variant, tokenValid, route, search, timeLimit, questions, answers, attemptId,
                   loading, submitting, error, quizCompleted, results, flows,
                   inits, resumedAt, submits, answerReqs, stored, answersDropped,
                   answerCalls, attempts, submitCalls, fired>>

\* goToPrevious / handlePreviousQuestion (the button is disabled at 0).
GoToPrevious == /\ ~Blocked
                /\ View = "quiz"
                /\ currentQuestionIndex # 0
                /\ currentQuestionIndex' = IF currentQuestionIndex > 0
                                           THEN currentQuestionIndex - 1
                                           ELSE currentQuestionIndex
                /\ lastEvent' = "previous"
                /\ UNCHANGED navFrame

\* The question overview of the later version: setCurrentQuestionIndex(index).
JumpTo(i) == /\ ~Blocked
             /\ View = "quiz"
             /\ variant # "pages"
             /\ i \in 0..(questions - 1)
             /\ i # currentQuestionIndex
             /\ currentQuestionIndex' = i
             /\ lastEvent' = "jump"
             /\ UNCHANGED navFrame

\* ------------------------------------------------------ the specification

\* The service stops accepting the session's token (it has expired).
TokenExpires ==
    /\ tokenValid
    /\ tokenValid' = FALSE
    /\ UNCHANGED <<variant, route, search, timeLimit, questions, currentQuestionIndex,
                   answers, attemptId, loading, submitting, error, timeLeft,
                   quizCompleted, results, flows, inits, submits, answerReqs,
                   attempts, submitCalls, fired, lastEvent, stored, answersDropped,
                   resumedAt, answerCalls>>

\* The user logs out in the navigation bar: user becomes null, and the
\* initialization effect, run again on isAuthenticated, navigates to the login
\* page; the route change unmounts the component.
Logout ==
    /\ ~Blocked
    /\ route = "quiz"
    /\ route' = "login"
    /\ lastEvent' = "logout"
    /\ UNCHANGED <<variant, tokenValid, search, timeLimit, questions,
                   currentQuestionIndex, answers, attemptId, loading, submitting,
                   error, timeLeft, quizCompleted, results, flows, inits, submits,
                   answerReqs, attempts, submitCalls, fired, stored, answersDropped,
                   resumedAt, answerCalls>>

\* The page load that left the attempt in progress had selected option o of
\* question q: its answer request is served before this mount's first request is.
EarlierAnswer(q, o) ==
    /\ lastEvent = "mount"
    /\ attemptId = Null
    /\ InProgress # {}
    /\ stored[ExistingAttempt][q] = NoAnswer
    /\ stored' = BackendAnswer(ExistingAttempt, q, o).stored
    /\ UNCHANGED <<variant, tokenValid, route, search, timeLimit, questions,
                   currentQuestionIndex, answers, attemptId, loading, submitting,
                   error, timeLeft, quizCompleted, results, flows, inits, submits,
                   answerReqs, attempts, submitCalls, fired, lastEvent,
                   answersDropped, resumedAt, answerCalls>>

DoEarlierAnswer == \E q \in Questions, o \in Options : EarlierAnswer(q, o)

DoReInit == \E s \in Searches : ReInit(s)
DoQuizResponse == \E f \in FlowIds, ok \in BOOLEAN : QuizResponse(f, ok)
DoStartResponse == \E f \in FlowIds, net \in NetOutcomes : StartResponse(f, net)
DoConfirmChoice == \E f \in FlowIds, resume \in BOOLEAN : ConfirmChoice(f, resume)
DoResumeResponse == \E f \in FlowIds, net \in NetOutcomes, next \in 0..NumQuestions :
                        ResumeResponse(f, net, next)
DoEndResponse == \E f \in FlowIds, net \in NetOutcomes : EndResponse(f, net)
DoRestartResponse == \E f \in FlowIds, net \in NetOutcomes : RestartResponse(f, net)
DoSubmitResponse == \E a \in 0..MaxAttemptId, net \in NetOutcomes, supplied \in BOOLEAN :
                        SubmitResponse(a, net, supplied)
DoRecordAnswer == \E q \in Questions, o \in Options : RecordAnswer(q, o)
DoAnswerResponse == \E r \in answerReqs, net \in NetOutcomes : AnswerResponse(r, net)
DoJumpTo == \E i \in 0..(NumQuestions - 1) : JumpTo(i)

\* One mount of the component on one entry URL, without the answer handlers
\* (they write answers, answerReqs and the service's stored answers only; no
\* other handler reads the first two, and the last only decides the score).
Next == \/ DoQuizResponse
        \/ DoStartResponse
        \/ DoConfirmChoice
        \/ DoResumeResponse
        \/ DoEndResponse
        \/ DoRestartResponse
        \/ ClickSubmit
        \/ DoSubmitResponse
        \/ Tick
        \/ GoToNext
        \/ GoToPrevious
        \/ DoJumpTo

Spec == Init /\ [][Next]_vars

\* One mount on which every request of fetchQuizData is eventually answered
\* or fails: each await of the flow resumes, as a pending promise settles once
\* the call returns.  Nothing is assumed about the user or the timer.
Responsive == /\ WF_vars(DoQuizResponse)
              /\ WF_vars(DoStartResponse)
              /\ WF_vars(DoResumeResponse)
              /\ WF_vars(DoEndResponse)
              /\ WF_vars(DoRestartResponse)

SpecLive == Init /\ [][Next]_vars /\ Responsive

\* The same with the entry URL changing while the component stays mounted.
NextReInit == Next \/ DoReInit

SpecReInit == Init /\ [][NextReInit]_vars

\* One mount of the component on an entry URL with any timer parameter.
InitTimer == InitOn(TimerParams)

SpecTimer == InitTimer /\ [][Next]_vars

\* One mount of the older component: it reads no timer parameter.
InitLegacy == InitFor(LegacyVariants, {NoParam})

\* One mount of any of the three versions.
InitAllTimers == InitTimer \/ InitLegacy

SpecAllTimers == InitAllTimers /\ [][Next]_vars

\* One mount of a quiz without a time limit and without a timer override (no
\* countdown is ever armed, so Tick is never enabled), with the answer handlers.
InitAnswers == Init /\ timeLimit = 0 /\ search = NoParam

NextAnswers == \/ DoQuizResponse
               \/ DoStartResponse
               \/ DoConfirmChoice
               \/ DoResumeResponse
               \/ DoEndResponse
               \/ DoRestartResponse
               \/ ClickSubmit
               \/ DoSubmitResponse
               \/ GoToNext
               \/ GoToPrevious
               \/ DoJumpTo
               \/ DoRecordAnswer
               \/ DoAnswerResponse

SpecAnswers == InitAnswers /\ [][NextAnswers]_vars

\* The same on a stale attempt that already has answers at the service.
NextResume == NextAnswers \/ DoEarlierAnswer

SpecResume == InitAnswers /\ [][NextResume]_vars

\* The same while the session's token can expire and the user can log out.
NextAuth == NextAnswers \/ TokenExpires \/ Logout

SpecAuth == InitAnswers /\ [][NextAuth]_vars

\* ------------------------------------------------------------ the claims

\* C1: every tick of an armed timer takes one second off; the tick that reaches
\* zero, and no other, calls submitQuiz (one new final-submit request); since
\* the timer was armed it has called submitQuiz once exactly when the remaining
\* time is zero, never twice; and no tick happens at zero.
C1_TimerSubmitsExactlyOnce ==
    /\ [](fired <= 1 /\ (fired = 1 <=> timeLeft = 0))
    /\ [][Tick => /\ timeLeft' = timeLeft - 1
                  /\ submitCalls' = submitCalls + (IF timeLeft' = 0 THEN 1 ELSE 0)
                  /\ SubmitCount' = SubmitCount + (IF timeLeft' = 0 THEN 1 ELSE 0)]_vars
    /\ [][timeLeft = 0 => ~Tick]_vars

\* The countdown has run from a full minute to zero in an Active session and
\* its one submit request is in flight.
C1_Witness == /\ timeLeft = 0
              /\ fired = 1
              /\ lastEvent = "timeout"
              /\ SubmitCount = 1
              /\ submitCalls = 1
              /\ error = ErrNone

\* C2 (as claimed): at most one final-submit request is in flight.
C2_OneSubmitInFlight == SubmitCount <= 1

\* C3 (as claimed): a completed session has issued exactly one completion call,
\* and once it is completed no call is issued, the stored summary does not
\* change and the session stays completed.
C3_CompletedOnce ==
    /\ [](SessionState = "Completed" => submitCalls = 1)
    /\ [][SessionState = "Completed" => /\ submitCalls' = submitCalls
                                        /\ results' = results
                                        /\ SessionState' = "Completed"]_vars

\* C4 (as claimed): right after a final submit has failed for a reason other
\* than a missing attempt, the session is Active again and may be submitted.
C4_FailedSubmitReturnsToActive ==
    lastEvent = "submitFailed" => SessionState = "Active" /\ View = "quiz"

\* C5 (as claimed): once the start request of an initialization has been
\* answered, by success or by conflict, the session is either Active with an
\* attempt id or ConflictPending - one of the two, never neither.
C5_ActiveOrConflictPending ==
    lastEvent \in {"started", "conflict"} =>
        ((SessionState = "Active" /\ attemptId # Null) \/ SessionState = "ConflictPending")

\* C6 (as claimed): right after a start conflict the session is ConflictPending
\* and holds the existing attempt's id, and no resume, end or second start
\* request is pending unless the user has chosen resume or restart.
C6_ConflictAwaitsChoice ==
    \A f \in FlowIds :
        /\ (lastEvent = "conflict" /\ flows[f].existing # 0) =>
               (SessionState = "ConflictPending" /\ attempts[flows[f].existing] = "in_progress")
        /\ flows[f].pc \in {"resume", "end", "restart"} => flows[f].choice # "none"

\* C7: on the restart path the second start request is issued only by the
\* continuation of a successful end request for the existing attempt E, so
\* while it is pending E is closed at the service; and the attempt id the
\* session adopts from it is a newly created attempt, different from E.
C7_RestartEndsThenStarts ==
    /\ [](\A f \in FlowIds :
              flows[f].pc = "restart" => attempts[flows[f].existing] = "ended")
    /\ [][\A f \in FlowIds :
              (flows[f].pc # "restart" /\ flows'[f].pc = "restart") =>
                  /\ flows[f].pc = "end"
                  /\ attempts[flows[f].existing] = "in_progress"
                  /\ attempts'[flows[f].existing] = "ended"]_vars
    /\ [][lastEvent' = "restarted" =>
              \E f \in FlowIds :
                  /\ flows[f].pc = "restart"
                  /\ flows'[f].pc = "idle"
                  /\ attemptId' # flows[f].existing
                  /\ attempts[attemptId'] = "none"
                  /\ attempts'[attemptId'] = "in_progress"]_vars

\* A conflict was resolved by restart: the stale attempt is closed and the
\* session holds the new attempt.
C7_Witness == /\ lastEvent = "restarted"
              /\ attemptId # Null
              /\ attempts[attemptId] = "in_progress"
              /\ \E a \in AttemptIds : a # attemptId /\ attempts[a] = "ended"
              /\ SessionState = "Active"

\* C8 (as claimed): in Completed and in Failed no step changes the remaining
\* seconds and none issues a final-submit request.
C8_TerminalStopsTimer ==
    [][(SessionState = "Completed" \/ SessionState = "Failed") =>
           (timeLeft' = timeLeft /\ submitCalls' = submitCalls)]_vars

\* C9 (as claimed): while a new initialization is loading, no countdown ticks.
C9_NoCountdownDuringInit == ~(loading /\ lastEvent \in {"tick", "timeout"})

\* C10: recording an answer sets the local answer at once, with its request
\* still in flight; when a request fails nothing of the session changes - the
\* answers, the error, the current question and the session state stay - and
\* no request is issued in its place.
C10_AnswerFailureIsSwallowed ==
    /\ [][\A q \in Questions, o \in Options :
              RecordAnswer(q, o) =>
                  /\ answers'[q] = o
                  /\ [attempt |-> attemptId, question |-> q, option |-> o] \in answerReqs'
                  /\ currentQuestionIndex' = currentQuestionIndex]_vars
    /\ [][(lastEvent' = "answerFailed" \/ lastEvent' = "answerRejected") =>
              /\ answers' = answers
              /\ error' = error
              /\ currentQuestionIndex' = currentQuestionIndex
              /\ SessionState' = SessionState
              /\ answerReqs' \subseteq answerReqs
              /\ answerReqs' # answerReqs
              /\ UNCHANGED <<submits, flows, attempts>>]_vars

\* An answer request has just failed in an Active session and the answer is
\* still selected locally.
C10_Witness == /\ lastEvent = "answerFailed"
               /\ answersDropped
               /\ SessionState = "Active"
               /\ \E q \in Questions : answers[q] # NoAnswer

\* C11 (as claimed): after two answers to the same question in a row, the
\* answer on display is the later one, and once every answer request issued
\* has reached the service and none is in flight, the service holds for every
\* question the answer on display - whatever order the requests were served in.
C11_BackendReflectsLastAnswer ==
    (attemptId # Null /\ answerReqs = {} /\ ~answersDropped) =>
        \A q \in Questions : stored[attemptId][q] = answers[q]

\* C12 (as claimed): handleAnswerChange runs in Active only - in no other
\* session state does a step change the local answers or issue an answer
\* request, in particular not while a final submit is in flight.
C12_RecordAnswerOnlyInActive ==
    [][(answers' # answers \/ ~(answerReqs' \subseteq answerReqs)) =>
           (SessionState = "Active" /\ SubmitCount = 0)]_vars

\* C13: once the questions are loaded the current-question index is within
\* 0 .. questions.length - 1 and navigation keeps it there: next moves one up
\* and never from the last question, previous moves one down and never from
\* question 0, and a jump goes to a question of the quiz.
C13_NavigationStaysInRange ==
    /\ [](questions > 0 => currentQuestionIndex \in 0..(questions - 1))
    /\ [][GoToNext => /\ currentQuestionIndex < questions - 1
                       /\ currentQuestionIndex' = currentQuestionIndex + 1]_vars
    /\ [][GoToPrevious => /\ currentQuestionIndex > 0
                           /\ currentQuestionIndex' = currentQuestionIndex - 1]_vars
    /\ [][(lastEvent' = "next" /\ currentQuestionIndex = questions - 1) =>
              currentQuestionIndex' = currentQuestionIndex]_vars
    /\ [][(lastEvent' = "previous" /\ currentQuestionIndex = 0) =>
              currentQuestionIndex' = currentQuestionIndex]_vars
    /\ [][(lastEvent' = "jump") => currentQuestionIndex' \in 0..(questions - 1)]_vars

\* The user has gone forward to the last question and back to the first.
C13_Witness == /\ lastEvent = "previous"
               /\ currentQuestionIndex = 0
               /\ questions = NumQuestions
               /\ SessionState = "Active"

\* C14: a navigation step (next, previous, jump) changes the current-question
\* index and nothing else: it issues no request of any kind, the service is
\* not touched, and the answers, the attempt id, the remaining seconds and the
\* session state are as before.
C14_NavigationIsLocal ==
    [][(GoToNext \/ GoToPrevious \/ DoJumpTo) =>
           /\ currentQuestionIndex' # currentQuestionIndex
           /\ UNCHANGED <<answers, attemptId, timeLeft>>
           /\ UNCHANGED <<flows, submits, answerReqs, submitCalls, answerCalls>>
           /\ UNCHANGED <<attempts, stored>>
           /\ SessionState' = SessionState
           /\ View' = View]_vars

\* The user has jumped to another question while the countdown runs and a
\* final submit is in flight.
C14_Witness == /\ lastEvent = "jump"
               /\ timeLeft > 0
               /\ timeLeft < SecondsPerMinute
               /\ SubmitCount = 1
               /\ currentQuestionIndex = questions - 1

\* C15 (as claimed): right after an attempt has become Active - by a fresh
\* start, a resume or a restart - the remaining time is the override times 60
\* when the timer parameter of the entry URL is a positive integer (decimal
\* digits only, value above zero), else the quiz's time limit times 60 when it
\* has one, else no timer at all; and without override and time limit no timer
\* ever runs and none ever submits.
C15_TimerFromOverrideOrLimit ==
    LET isInteger == search # <<>> /\ \A i \in 1..Len(search) : search[i] \in DigitChars
        isOverride == isInteger /\ DecimalValue(search) > 0
    IN /\ lastEvent \in {"started", "resumed", "restarted"} =>
              timeLeft = IF isOverride THEN DecimalValue(search) * SecondsPerMinute
                         ELSE IF timeLimit # 0 THEN timeLimit * SecondsPerMinute
                         ELSE NoTimer
       /\ (~isOverride /\ timeLimit = 0) => (timeLeft = NoTimer /\ fired = 0)

\* C16: a resume request is pending only for the in-progress attempt the
\* start conflict named and only after the user chose to resume; when it
\* succeeds the session holds that attempt's id, shows the question the
\* response points to (the first question when it points to none), has its
\* timer armed afresh from the override or else the quiz's limit (no timer
\* without both), and is Active.
C16_ResumeAdoptsExistingAttempt ==
    /\ [](\A f \in FlowIds :
              flows[f].pc = "resume" =>
                  /\ flows[f].choice = "resume"
                  /\ flows[f].existing \in AttemptIds
                  /\ attempts[flows[f].existing] = "in_progress")
    /\ [][lastEvent' = "resumed" =>
              \E f \in FlowIds :
                  /\ flows[f].pc = "resume"
                  /\ flows'[f].pc = "idle"
                  /\ attemptId' = flows[f].existing
                  /\ attempts'[attemptId'] = "in_progress"
                  /\ currentQuestionIndex = 0
                  /\ currentQuestionIndex' = IF resumedAt' # 0 THEN resumedAt' - 1 ELSE 0
                  /\ timeLeft' = IF CustomTimer(search)
                                 THEN ParseInt(search).val * SecondsPerMinute
                                 ELSE IF timeLimit # 0 THEN timeLimit * SecondsPerMinute
                                 ELSE NoTimer
                  /\ SessionState' = "Active"
                  /\ View' = "quiz"]_vars

\* The stale attempt 1 was resumed at the last question with a one-minute
\* override.
C16_Witness == /\ lastEvent = "resumed"
               /\ attemptId = 1
               /\ attempts[1] = "in_progress"
               /\ resumedAt = NumQuestions
               /\ currentQuestionIndex = NumQuestions - 1
               /\ timeLeft = SecondsPerMinute
               /\ SessionState = "Active"

\* C17: when the quiz request or the start request fails other than by a
\* start conflict, the session is Failed and shows the load error, holds no
\* attempt id and no timer, and has no request pending; and from then on no
\* step issues a request or reaches the service.
C17_LoadFailureIsFinal ==
    /\ [][\A f \in FlowIds :
              ((flows[f].pc = "quiz" \/ flows[f].pc = "start") /\ lastEvent' = "loadFailed") =>
                  /\ SessionState' = "Failed"
                  /\ View' = "error"
                  /\ error' = ErrLoad
                  /\ attemptId' = Null
                  /\ timeLeft' = NoTimer
                  /\ \A g \in FlowIds : flows'[g].pc = "idle"
                  /\ SubmitCount' = 0
                  /\ answerReqs' = {}]_vars
    /\ [][(error = ErrLoad /\ attemptId = Null) =>
              UNCHANGED <<flows, submits, answerReqs, submitCalls, attempts, stored,
                          attemptId, timeLeft, error>>]_vars

\* The quiz was loaded and the start request failed, with no attempt at the
\* service to conflict with.
C17_Witness == /\ lastEvent = "loadFailed"
               /\ questions = NumQuestions
               /\ \A a \in AttemptIds : attempts[a] = "none"
               /\ SessionState = "Failed"
               /\ error = ErrLoad
               /\ attemptId = Null
               /\ timeLeft = NoTimer

C19_IncorrectCount ==
    LET a == results.attempt
        right == Cardinality({q \in Questions : stored[a][q] = CorrectOption})
        wrong == Cardinality({q \in Questions : stored[a][q] \notin {CorrectOption, NoAnswer}})
    IN /\ lastEvent = "submitOk" =>
              /\ quizCompleted
              /\ a \in AttemptIds
              /\ attempts[a] \in {"completed", "ended"}
              /\ results.correct_answers = right
              /\ results.total_questions = NumQuestions
              /\ results.incorrect_answers \in {Undefined, wrong}
       /\ (variant = "part001" /\ View = "results") =>
              Incorrect = IF results.incorrect_answers # Undefined THEN wrong
                          ELSE NumQuestions - right

\* The results view shows a summary without an incorrect count for an
\* attempt with one correct answer: 2 - 1 = 1 incorrect.
C19_Witness == /\ variant = "part001"
               /\ View = "results"
               /\ results.incorrect_answers = Undefined
               /\ results.correct_answers = 1
               /\ results.total_questions = NumQuestions
               /\ Incorrect = NumQuestions - 1

\* C20: an attempt the service has closed - completed by a final submit,
\* manual or from the timer, or ended - never changes again: no step, and in
\* particular no answer request arriving after the completion was processed,
\* changes its status, its stored answers or the score computed from them.
C20_ClosedAttemptIsImmutable ==
    [][\A a \in AttemptIds :
           (attempts[a] = "completed" \/ attempts[a] = "ended") =>
               /\ attempts'[a] = attempts[a]
               /\ stored'[a] = stored[a]
               /\ Score(a, TRUE)' = Score(a, TRUE)]_vars

\* An answer request issued before the final submit reached the service
\* after the attempt was completed and was turned down: the service still
\* has the answer it had at completion, not the one on display.
C20_Witness == /\ lastEvent = "answerRejected"
               /\ attemptId # Null
               /\ attempts[attemptId] = "completed"
               /\ quizCompleted
               /\ \E q \in Questions : /\ answers[q] # NoAnswer
                                        /\ stored[attemptId][q] # answers[q]

\* C21 (as claimed): the service never holds more than one in-progress
\* attempt, and whenever the session is Active the attempt id it holds is
\* that one in-progress attempt.
C21_ActiveHoldsTheOneInProgress ==
    /\ Cardinality(InProgress) <= 1
    /\ SessionState = "Active" => (attemptId # Null /\ InProgress = {attemptId})

\* C22 (as claimed): at most one fetchQuizData call is pending at any time.
C22_OneInitializationAtATime ==
    Cardinality({f \in FlowIds : flows[f].pc # "idle"}) <= 1

\* C23 (as claimed): every step in which a handler receives a 401 from the
\* service (start, resume, end, restart, answer submit or final submit,
\* delivered while the token is no longer accepted) takes the user to the
\* login page.
C23_UnauthorizedRedirectsToLogin ==
    [][(/\ ~tokenValid
        /\ \/ \E f \in FlowIds : \/ StartResponse(f, "ok")
                                 \/ EndResponse(f, "ok")
                                 \/ RestartResponse(f, "ok")
                                 \/ \E next \in 0..NumQuestions : ResumeResponse(f, "ok", next)
           \/ \E r \in answerReqs : AnswerResponse(r, "ok")
           \/ \E a \in 0..MaxAttemptId, supplied \in BOOLEAN : SubmitResponse(a, "ok", supplied))
       => route' = "login"]_vars

\* C24 (as claimed): every step that enters Completed starts in Submitting
\* and is the success branch of submitQuiz for the attempt id the session
\* holds.
C24_CompletedOnlyFromSubmitting ==
    [][(SessionState' = "Completed" /\ SessionState # "Completed")
          => (/\ SessionState = "Submitting"
              /\ lastEvent' = "submitOk"
              /\ results'.attempt = attemptId)]_vars

C26_TimerWithinArmedValue ==
    /\ [](timeLeft # NoTimer => timeLeft \in 0..ArmedTimer(search, timeLimit))
    /\ [][timeLeft' > timeLeft
            => (/\ lastEvent' \in {"started", "resumed", "restarted"}
                /\ TimerArms(search, timeLimit)
                /\ timeLeft' = ArmedTimer(search, timeLimit))]_vars
    /\ [][timeLeft' < timeLeft
            => (/\ lastEvent' \in {"tick", "timeout"}
                /\ timeLeft' = timeLeft - 1
                /\ timeLeft' >= 0)]_vars

\* A timer armed with one minute has counted down to 0 and the submit it
\* triggered has been answered.
C26_Witness == /\ timeLeft = 0
               /\ ArmedTimer(search, timeLimit) = SecondsPerMinute
               /\ fired > 0
               /\ lastEvent = "submitOk"

\* C27 (as claimed): in the step in which the service processes the final
\* submit of an attempt, and no answer request has failed, the answers it
\* stores for the attempt are the answers the session shows as selected.
C27_ScoredAnswersAreLocalAnswers ==
    [][\A a \in AttemptIds :
          (/\ attempts[a] = "in_progress"
           /\ attempts'[a] # "in_progress"
           /\ lastEvent' \in {"submitOk", "submitFailed"}
           /\ ~answersDropped)
          => stored[a] = answers]_vars

\* C28: on one mount where every request of fetchQuizData is eventually
\* answered or fails, an initialization that is loading always comes to wait
\* for the user's choice or to its end, and one that goes on after the choice
\* (resume, end, second start) always comes to its end; whenever fetchQuizData
\* ends - start succeeded, conflict resolved, conflict handling failed, any
\* other failure - loading is cleared in that step and the session is Active
\* or Failed.
C28_InitializationEnds ==
    /\ (SessionState = "Initializing")
           ~> (SessionState \in {"Active", "Failed", "ConflictPending"})
    /\ (\E f \in FlowIds : flows[f].pc \in {"resume", "end", "restart"})
           ~> (~loading /\ SessionState \in {"Active", "Failed"})
    /\ [][\A f \in FlowIds : (flows[f].pc # "idle" /\ flows'[f].pc = "idle")
              => (/\ ~loading'
                  /\ SessionState' \in {"Active", "Failed"}
                  /\ lastEvent' \in {"started", "resumed", "restarted", "loadFailed"})]_vars
    /\ [](loading => \E f \in FlowIds : flows[f].pc # "idle")

\* fetchQuizData has ended in its inner catch: the end request of the restart
\* path failed, loading is cleared and the session is Failed.
C28_Witness == /\ lastEvent = "loadFailed"
               /\ ~loading
               /\ SessionState = "Failed"
               /\ InProgress # {}
               /\ attemptId = Null
               /\ \A f \in FlowIds : flows[f].pc = "idle"

\* C29 (as claimed): right after a resume, the answers the session shows
\* are the answers the service stores for the resumed attempt.
C29_ResumeShowsStoredAnswers ==
    lastEvent = "resumed" => \A q \in Questions : answers[q] = stored[attemptId][q]

\* C30: no final-submit request (end or complete) is ever in flight for a
\* missing attempt id; every step that issues one is taken while the session
\* holds an attempt id and issues it for that id; and as long as no attempt id
\* is recorded no step changes submitting, the requests in flight, the
\* completion flag or the results.
C30_NoSubmitWithoutAttemptId ==
    /\ [](submits[Null] = 0)
    /\ [][submitCalls' > submitCalls
            => (/\ attemptId # Null
                /\ submits'[attemptId] > 0)]_vars
    /\ [][attemptId = Null
            => (/\ submitting' = submitting
                /\ submits' = submits
                /\ submitCalls' = submitCalls
                /\ quizCompleted' = quizCompleted
                /\ results' = results)]_vars

\* The timer has called submitQuiz in the version without the guard: the one
\* request in flight carries the attempt id the session holds.
C30_Witness == /\ variant = "pages"
               /\ lastEvent = "timeout"
               /\ attemptId # Null
               /\ submits[attemptId] = 1
               /\ submits[Null] = 0
               /\ submitting

====
